---- MODULE Spec2Model ----
(***************************************************************************)
(* Model of scripts/add-organization.py and scripts/utils/*.py: the        *)
(* onboarding of an organization into the deployment tree.                 *)
(*                                                                         *)
(* Text is modelled as sequences of one-character strings wherever the     *)
(* code looks inside it (file names, organization names, partner           *)
(* identifiers, domains); file contents are modelled by their structure    *)
(* (blocks, lists, JSON items) as the patterns of the code see them.       *)
(***************************************************************************)
EXTENDS Integers, Sequences, FiniteSets, TLC

VARIABLES
    fs,      \* the working tree: deployment dir, seed JSON, DID script, collections
    pc,      \* position of the current run inside OrganizationAutomator.run
    args,    \* argparse namespace of the current run
    params,  \* dict returned by prepare_parameters
    result,  \* what run() returned: "success" (True), "failure" (False); None while running
    steps,   \* the steps the current run has executed, in order
    fs0,     \* the working tree as it was when the current run started
    runs,    \* number of runs started so far
    probe    \* input and output of a single call of a pure helper

vars == <<fs, pc, args, params, result, steps, fs0, runs, probe>>

None == "none"

(***************************************************************************)
(* Characters and text                                                     *)
(***************************************************************************)
LowerChars == {"a","b","c","d","e","f","g","h","i","j","k","l","m",
               "n","o","p","q","r","s","t","u","v","w","x","y","z"}

UpperChars == {"A","B","C","D","E","F","G","H","I","J","K","L","M",
               "N","O","P","Q","R","S","T","U","V","W","X","Y","Z"}

DigitChars == {"0","1","2","3","4","5","6","7","8","9"}

AlnumChars == LowerChars \cup UpperChars \cup DigitChars

DigitVal(c) ==
    CASE c = "0" -> 0 [] c = "1" -> 1 [] c = "2" -> 2 [] c = "3" -> 3
      [] c = "4" -> 4 [] c = "5" -> 5 [] c = "6" -> 6 [] c = "7" -> 7
      [] c = "8" -> 8 [] c = "9" -> 9

DigitChar(n) ==
    CASE n = 0 -> "0" [] n = 1 -> "1" [] n = 2 -> "2" [] n = 3 -> "3"
      [] n = 4 -> "4" [] n = 5 -> "5" [] n = 6 -> "6" [] n = 7 -> "7"
      [] n = 8 -> "8" [] n = 9 -> "9"

UpperOf(c) ==
    CASE c = "a" -> "A" [] c = "b" -> "B" [] c = "c" -> "C" [] c = "d" -> "D"
      [] c = "e" -> "E" [] c = "f" -> "F" [] c = "g" -> "G" [] c = "h" -> "H"
      [] c = "i" -> "I" [] c = "j" -> "J" [] c = "k" -> "K" [] c = "l" -> "L"
      [] c = "m" -> "M" [] c = "n" -> "N" [] c = "o" -> "O" [] c = "p" -> "P"
      [] c = "q" -> "Q" [] c = "r" -> "R" [] c = "s" -> "S" [] c = "t" -> "T"
      [] c = "u" -> "U" [] c = "v" -> "V" [] c = "w" -> "W" [] c = "x" -> "X"
      [] c = "y" -> "Y" [] c = "z" -> "Z" [] OTHER -> c

\* str.upper()
Upper(s) == [i \in 1..Len(s) |-> UpperOf(s[i])]

\* str.title(): a cased character is upper-cased when it follows an uncased
\* one (or starts the string); the names that reach it are lowercase.
Title(s) ==
    [i \in 1..Len(s) |->
        IF i = 1 \/ s[i-1] \notin (LowerChars \cup UpperChars)
        THEN UpperOf(s[i]) ELSE s[i]]

StartsWith(s, p) == Len(s) >= Len(p) /\ SubSeq(s, 1, Len(p)) = p

EndsWith(s, p) ==
    Len(s) >= Len(p) /\ SubSeq(s, Len(s) - Len(p) + 1, Len(s)) = p

\* The texts a pattern ending in $ is tried against: re's $ matches at the
\* very end and just before a final newline.
DollarCores(s) ==
    {s} \cup (IF Len(s) > 0 /\ s[Len(s)] = "\n"
              THEN {SubSeq(s, 1, Len(s) - 1)} ELSE {})

RECURSIVE SplitDot(_)
\* The dot-separated labels of s.
SplitDot(s) ==
    IF \A i \in 1..Len(s) : s[i] # "."
    THEN <<s>>
    ELSE LET i == CHOOSE k \in 1..Len(s) :
                      s[k] = "." /\ \A j \in 1..(k-1) : s[j] # "."
         IN <<SubSeq(s, 1, i - 1)>> \o SplitDot(SubSeq(s, i + 1, Len(s)))

(***************************************************************************)
(* utils/validation.py                                                     *)
(***************************************************************************)
BpnPrefix == <<"B","P","N","L">>

BpnDigits == 12

\* ^[a-z][a-z0-9]*$
validate_org_name(org_name) ==
    /\ org_name # <<>>
    /\ \E core \in DollarCores(org_name) :
          /\ Len(core) >= 1
          /\ core[1] \in LowerChars
          /\ \A i \in 2..Len(core) : core[i] \in LowerChars \cup DigitChars

\* ^BPNL\d{12}$
validate_bpn(bpn) ==
    \E core \in DollarCores(bpn) :
       /\ Len(core) = Len(BpnPrefix) + BpnDigits
       /\ StartsWith(core, BpnPrefix)
       /\ \A i \in (Len(BpnPrefix) + 1)..Len(core) : core[i] \in DigitChars

\* [a-zA-Z0-9]([a-zA-Z0-9-]{0,61}[a-zA-Z0-9])?
DomainLabel(l) ==
    /\ Len(l) >= 1
    /\ Len(l) <= 63
    /\ l[1] \in AlnumChars
    /\ l[Len(l)] \in AlnumChars
    /\ \A i \in 1..Len(l) : l[i] \in AlnumChars \cup {"-"}

\* ^label(\.label)*$
validate_domain(domain) ==
    /\ domain # <<>>
    /\ \E core \in DollarCores(domain) :
          LET labels == SplitDot(core)
          IN \A i \in 1..Len(labels) : DomainLabel(labels[i])

DotTf == <<".","t","f">>

\* deployment_dir.glob("*.tf"): dir is the set of file names of the directory
GlobTf(dir) == {f \in dir : EndsWith(f, DotTf)}

\* check_org_exists looking for the file <org_name>.tf only
check_org_exists_exact(org_name, dir) ==
    \E f \in dir : f = org_name \o DotTf

\* deployment_dir.glob(f"*{org_name}.tf") is not empty
check_org_exists(org_name, dir) ==
    \E f \in dir : EndsWith(f, org_name \o DotTf)

\* Length of the run of digits f starts with.
LeadingDigits(f) ==
    IF \A i \in 1..Len(f) : f[i] \in DigitChars
    THEN Len(f)
    ELSE (CHOOSE k \in 1..Len(f) :
             f[k] \notin DigitChars /\ \A j \in 1..(k-1) : f[j] \in DigitChars) - 1

RECURSIVE DigitsToInt(_)
\* int() of a string of decimal digits (small numbers only)
DigitsToInt(d) ==
    IF d = <<>> THEN 0
    ELSE 10 * DigitsToInt(SubSeq(d, 1, Len(d) - 1)) + DigitVal(d[Len(d)])

\* re.match(r'(\d+)-.*\.tf$', name) on a name glob("*.tf") returned
NumberedTf(f) ==
    LET n == LeadingDigits(f)
    IN /\ n >= 1
       /\ Len(f) > n
       /\ f[n + 1] = "-"
       /\ \E core \in DollarCores(f) :
             EndsWith(core, DotTf) /\ Len(core) >= n + 1 + Len(DotTf)

FileNumbers(dir) ==
    {DigitsToInt(SubSeq(f, 1, LeadingDigits(f))) : f \in {g \in GlobTf(dir) : NumberedTf(g)}}

MaxOf(S) == CHOOSE m \in S : \A n \in S : n <= m

SeedDataTf == <<"4","-","s","e","e","d","_","d","a","t","a",".","t","f">>

\* find_next_file_number counting the numbered files instead of taking the
\* largest number
find_next_file_number_counting(dir) ==
    LET numbers == FileNumbers(dir)
    IN IF numbers = {} THEN 2
       ELSE LET next_num == Cardinality(numbers) + 2
            IN IF next_num = 4 /\ SeedDataTf \in dir THEN 5 ELSE next_num

find_next_file_number(dir) ==
    LET numbers == FileNumbers(dir)
    IN IF numbers = {} THEN 2
       ELSE LET next_num == MaxOf(numbers) + 1
            IN IF next_num = 4 /\ SeedDataTf \in dir THEN 5 ELSE next_num

(***************************************************************************)
(* Decimal strings as numbers: a partner identifier carries 12 digits,     *)
(* which the code handles as an unbounded int.  A number is kept as its    *)
(* digits without leading zeros (zero is the empty sequence).              *)
(***************************************************************************)
RECURSIVE StripZeros(_)
\* int(): the digits without leading zeros
StripZeros(d) ==
    IF d # <<>> /\ d[1] = "0" THEN StripZeros(Tail(d)) ELSE d

NumLess(a, b) ==
    \/ Len(a) < Len(b)
    \/ /\ Len(a) = Len(b)
       /\ \E i \in 1..Len(a) :
             /\ DigitVal(a[i]) < DigitVal(b[i])
             /\ \A j \in 1..(i-1) : a[j] = b[j]

\* max() of a non-empty set of numbers
NumMax(S) == CHOOSE m \in S : \A n \in S : n = m \/ NumLess(n, m)

RECURSIVE NumInc(_)
\* n + 1
NumInc(d) ==
    IF d = <<>> THEN <<"1">>
    ELSE LET last == DigitVal(d[Len(d)])
             init == SubSeq(d, 1, Len(d) - 1)
         IN IF last = 9 THEN NumInc(init) \o <<"0">>
            ELSE init \o <<DigitChar(last + 1)>>

RECURSIVE ZeroPad(_, _)
\* f"{n:0{width}d}": zeros on the left up to width, never a truncation
ZeroPad(d, width) ==
    IF Len(d) >= width THEN d ELSE ZeroPad(<<"0">> \o d, width)

RECURSIVE FindAllBpn(_)
\* re.findall(r'BPNL\d{12}', text): the non-overlapping matches, left to right
FindAllBpn(text) ==
    IF Len(text) < Len(BpnPrefix) + BpnDigits THEN {}
    ELSE LET head == SubSeq(text, 1, Len(BpnPrefix) + BpnDigits)
         IN IF /\ StartsWith(head, BpnPrefix)
               /\ \A i \in (Len(BpnPrefix) + 1)..Len(head) : head[i] \in DigitChars
            THEN {head} \cup FindAllBpn(SubSeq(text, Len(head) + 1, Len(text)))
            ELSE FindAllBpn(Tail(text))

VariablesTf == <<"v","a","r","i","a","b","l","e","s",".","t","f">>

\* The text of one declaration block of variables.tf that the identifier
\* pattern can match in: the value of its partner-identifier variable.
BlockText(block) == block.bpn

\* dir is the deployment directory; variables.tf is a sequence of
\* declaration blocks
get_existing_bpns(dir) ==
    IF VariablesTf \notin DOMAIN dir THEN {}
    ELSE LET content == dir[VariablesTf]
         IN UNION {FindAllBpn(BlockText(content[i])) : i \in 1..Len(content)}

\* generate_next_bpn taking max() of the digit strings' integer values but
\* forgetting the carry into a longer number: 9 + 1 written as 0
generate_next_bpn_no_carry(existing_bpns) ==
    LET numbers == {StripZeros(SubSeq(b, Len(BpnPrefix) + 1, Len(b))) :
                        b \in {e \in existing_bpns : StartsWith(e, BpnPrefix)}}
        top == NumMax(numbers)
    IN IF numbers = {}
       THEN BpnPrefix \o <<"0","0","0","0","0","0","0","0","0","0","0","1">>
       ELSE BpnPrefix \o ZeroPad(
              IF top # <<>> /\ top[Len(top)] = "9"
              THEN SubSeq(top, 1, Len(top) - 1) \o <<"0">> ELSE NumInc(top),
              BpnDigits)

generate_next_bpn(existing_bpns) ==
    LET numbers == {StripZeros(SubSeq(b, Len(BpnPrefix) + 1, Len(b))) :
                        b \in {e \in existing_bpns : StartsWith(e, BpnPrefix)}}
    IN IF numbers = {}
       THEN BpnPrefix \o <<"0","0","0","0","0","0","0","0","0","0","0","1">>
       ELSE BpnPrefix \o ZeroPad(NumInc(NumMax(numbers)), BpnDigits)

TerraformTf == <<"t","e","r","r","a","f","o","r","m",".","t","f">>

\* dir: the file names of the deployment directory; modules: whether the
\* modules directory exists
validate_deployment_directory(dir, modules) ==
    /\ \A file_name \in {VariablesTf, SeedDataTf, TerraformTf} : file_name \in dir
    /\ modules

(***************************************************************************)
(* utils/terraform_utils.py                                                *)
(*                                                                         *)
(* A directory is a function from the names of its files to their          *)
(* contents.  A call that can raise returns [ok |-> FALSE] instead of a    *)
(* value.                                                                  *)
(***************************************************************************)
DotBackup == <<".","b","a","c","k","u","p">>

Raised == [ok |-> FALSE]

Returned(v) == [ok |-> TRUE, val |-> v]

\* Path.write_text / open(path, 'w'): creates or replaces the file
WriteFile(dir, name, content) == (name :> content) @@ dir

\* backup_file: read_text raises when the file does not exist
backup_file(dir, name) ==
    IF name \notin DOMAIN dir THEN Raised
    ELSE Returned(WriteFile(dir, name \o DotBackup, dir[name]))

create_organization_tf(dir, name, content) == WriteFile(dir, name, content)

\* open(variables_file, 'a'): appends, creating the file when it is missing
append_to_variables_tf(dir, block) ==
    WriteFile(dir, VariablesTf,
              IF VariablesTf \in DOMAIN dir THEN Append(dir[VariablesTf], block)
              ELSE <<block>>)

Companyx == <<"c","o","m","p","a","n","y","x">>

Companyy == <<"c","o","m","p","a","n","y","y">>

BdrsServer == [org |-> <<>>, kind |-> "bdrs-server"]

IdentityHub(org) == [org |-> org, kind |-> "tx-identity-hub"]

ConnectorIngress(org) == [org |-> org, kind |-> "connector_ingress"]

(***************************************************************************)
(* 4-seed_data.tf, as the seven patterns of update_seed_data_tf see it.    *)
(* re.sub rewrites every occurrence of a pattern, so each field holds one  *)
(* element per occurrence of the text its pattern starts at:               *)
(*   seed_collections  per "seed_collections = {" block: its entries, the  *)
(*                     locals standing right before it, and whether the    *)
(*                     line is indented as the fourth pattern wants        *)
(*   companies         per "companies = {" block closed by "\n  }": its    *)
(*                     entries                                             *)
(*   participant_did   per issuer_did line: the *_participant_did locals   *)
(*                     right before it                                     *)
(*   env_vars          per BDRS_API_AUTH_KEY argument: the organizations   *)
(*                     whose two --env-var arguments stand right before it *)
(*   depends_on        per "depends_on = [" list: its modules              *)
(***************************************************************************)
\* seed_collections_pattern: the companyy entry directly followed by the
\* closing brace; the new entry goes between them
PatchSeedCollections(content, org_name) ==
    [content EXCEPT !.seed_collections =
        [i \in DOMAIN @ |->
            IF @[i].entries # <<>> /\ @[i].entries[Len(@[i].entries)] = Companyy
            THEN [@[i] EXCEPT !.entries = Append(@, org_name)]
            ELSE @[i]]]

\* companies_pattern: lazily up to the first "\n  }"; the entry goes before it
PatchCompanies(content, org_name) ==
    [content EXCEPT !.companies = [i \in DOMAIN @ |-> Append(@[i], org_name)]]

\* participant_did_pattern: the line goes before every issuer_did line
PatchParticipantDid(content, org_name) ==
    [content EXCEPT !.participant_did = [i \in DOMAIN @ |-> Append(@[i], org_name)]]

\* internal_service_pattern: two locals go before every "  seed_collections = {"
PatchInternalService(content, org_name) ==
    [content EXCEPT !.seed_collections =
        [i \in DOMAIN @ |->
            IF @[i].indent
            THEN [@[i] EXCEPT !.locals_before = Append(@, org_name)]
            ELSE @[i]]]

\* bdrs_env_vars_pattern: two arguments go before every BDRS_API_AUTH_KEY one
PatchEnvVars(content, org_name) ==
    [content EXCEPT !.env_vars = [i \in DOMAIN @ |-> Append(@[i], org_name)]]

\* first_depends_on_pattern: the list that is exactly [module.bdrs-server]
PatchFirstDependsOn(content, org_name) ==
    [content EXCEPT !.depends_on =
        [i \in DOMAIN @ |->
            IF @[i] = <<BdrsServer>>
            THEN @[i] \o <<IdentityHub(org_name), ConnectorIngress(org_name)>>
            ELSE @[i]]]

\* second_depends_on_pattern: a list ending in module.companyy_connector_ingress
PatchSecondDependsOn(content, org_name) ==
    [content EXCEPT !.depends_on =
        [i \in DOMAIN @ |->
            IF @[i] # <<>> /\ @[i][Len(@[i])] = ConnectorIngress(Companyy)
            THEN @[i] \o <<IdentityHub(org_name), ConnectorIngress(org_name)>>
            ELSE @[i]]]

\* The seven re.sub calls in the order of the code; none of them raises.
PatchSeedData(content, org_name) ==
    PatchSecondDependsOn(
      PatchFirstDependsOn(
        PatchEnvVars(
          PatchInternalService(
            PatchParticipantDid(
              PatchCompanies(
                PatchSeedCollections(content, org_name), org_name), org_name),
            org_name), org_name), org_name), org_name)

\* update_seed_data_tf raising when one of its patterns finds nothing
update_seed_data_tf_strict(dir, org_name, bpn) ==
    IF SeedDataTf \notin DOMAIN dir THEN Raised
    ELSE LET old == dir[SeedDataTf]
             new == PatchSeedData(old, org_name)
         IN IF \/ PatchSeedCollections(old, org_name) = old
               \/ PatchCompanies(old, org_name) = old
               \/ PatchParticipantDid(old, org_name) = old
               \/ PatchInternalService(old, org_name) = old
               \/ PatchEnvVars(old, org_name) = old
               \/ PatchFirstDependsOn(old, org_name) = old
               \/ PatchSecondDependsOn(old, org_name) = old
            THEN Raised
            ELSE Returned(WriteFile(dir, SeedDataTf, new))

\* read_text raises when the file is missing; bpn is not used by the patches
update_seed_data_tf(dir, org_name, bpn) ==
    IF SeedDataTf \notin DOMAIN dir THEN Raised
    ELSE Returned(WriteFile(dir, SeedDataTf, PatchSeedData(dir[SeedDataTf], org_name)))

(***************************************************************************)
(* mvds-seed.json: [has_item, item |-> the sections in order]; a section   *)
(* is [name, has_item, item |-> its requests in order].  has_item tells    *)
(* whether the object has the key "item" at all.                           *)
(***************************************************************************)
SeedBDRS == "SeedBDRS"

\* The loop of lines 132-135 without its break: the last section named SeedBDRS
FindSeedBdrs_last(seed_data) ==
    LET items == IF seed_data.has_item THEN seed_data.item ELSE <<>>
    IN IF \A i \in 1..Len(items) : items[i].name # SeedBDRS THEN 0
       ELSE CHOOSE i \in 1..Len(items) :
               items[i].name = SeedBDRS
               /\ \A j \in (i+1)..Len(items) : items[j].name # SeedBDRS

\* The loop of lines 132-135: index of the first section named SeedBDRS, 0 if none
FindSeedBdrs(seed_data) ==
    LET items == IF seed_data.has_item THEN seed_data.item ELSE <<>>
    IN IF \A i \in 1..Len(items) : items[i].name # SeedBDRS THEN 0
       ELSE CHOOSE i \in 1..Len(items) :
               items[i].name = SeedBDRS /\ \A j \in 1..(i-1) : items[j].name # SeedBDRS

\* new_bpn_mapping: the request is fixed but for the organization's name
NewBpnMapping(org_name) ==
    [name |-> <<"Create ">> \o Title(org_name) \o <<" BPN Mapping">>,
     bpn_var |-> Upper(org_name) \o <<"_BPN">>,
     did_var |-> Upper(org_name) \o <<"_DID">>]

\* EditSeedJson creating the section it does not find instead of raising
EditSeedJson_creating_section(seed_data, org_name) ==
    LET k == FindSeedBdrs(seed_data)
    IN IF k = 0
       THEN Returned(
              [has_item |-> TRUE,
               item |-> Append(IF seed_data.has_item THEN seed_data.item ELSE <<>>,
                               [name |-> SeedBDRS, has_item |-> TRUE,
                                item |-> <<NewBpnMapping(org_name)>>])])
       ELSE Returned(
              [seed_data EXCEPT
                  !.item[k].item =
                      Append(IF seed_data.item[k].has_item THEN @ ELSE <<>>,
                             NewBpnMapping(org_name)),
                  !.item[k].has_item = TRUE])

\* The document json.dump writes, or the ValueError of line 138
EditSeedJson(seed_data, org_name) ==
    LET k == FindSeedBdrs(seed_data)
    IN IF k = 0 THEN Raised
       ELSE Returned(
              [seed_data EXCEPT
                  !.item[k].item =
                      Append(IF seed_data.item[k].has_item THEN @ ELSE <<>>,
                             NewBpnMapping(org_name)),
                  !.item[k].has_item = TRUE])

MvdsSeedJson == <<"mvds-seed.json">>

update_mvds_seed_json(dir, org_name, bpn) ==
    IF MvdsSeedJson \notin DOMAIN dir THEN Raised
    ELSE LET edited == EditSeedJson(dir[MvdsSeedJson], org_name)
         IN IF edited.ok THEN Returned(WriteFile(dir, MvdsSeedJson, edited.val))
            ELSE Raised

(***************************************************************************)
(* utils/did_utils.py: jwt-gen.py is [companies |-> per "companies = ["    *)
(* array closed by the first "]", its entries in order].                   *)
(***************************************************************************)
JwtGenPy == <<"jwt-gen.py">>

\* companies_pattern: the entry goes before the closing bracket of every array
PatchJwtGen(content, org_name, bpn) ==
    [content EXCEPT !.companies =
        [i \in DOMAIN @ |-> Append(@[i], [org |-> org_name, holder_identifier |-> bpn])]]

update_jwt_gen_script(dir, org_name, bpn) ==
    IF JwtGenPy \notin DOMAIN dir THEN Raised
    ELSE Returned(WriteFile(dir, JwtGenPy, PatchJwtGen(dir[JwtGenPy], org_name, bpn)))

(***************************************************************************)
(* add-organization.py: OrganizationAutomator                              *)
(*                                                                         *)
(* fs = [deployment, modules, templates, seed_dir, did_dir, collections]:  *)
(* the deployment directory, whether deployment/modules is a directory,    *)
(* the names of the templates present, deployment/assets/seed,             *)
(* deployment/assets/did and data-sharing/api-collections.                 *)
(***************************************************************************)
OrgTemplate == "organization.tf.j2"

VarsTemplate == "variables.tf.patch.j2"

\* The truth value Python gives args.bpn: None and "" are both false, and
\* both are the empty sequence here
Truthy(s) == s # <<>>

\* validate_inputs without its last check, the one for an existing organization
validate_inputs_no_exists_check(a, tree) ==
    /\ validate_org_name(a.org_name)
    /\ ~(Truthy(a.bpn) /\ ~validate_bpn(a.bpn))
    /\ validate_domain(a.domain)
    /\ validate_deployment_directory(DOMAIN tree.deployment, tree.modules)

\* The five checks in order, each returning False when it fails
validate_inputs(a, tree) ==
    /\ validate_org_name(a.org_name)
    /\ ~(Truthy(a.bpn) /\ ~validate_bpn(a.bpn))
    /\ validate_domain(a.domain)
    /\ validate_deployment_directory(DOMAIN tree.deployment, tree.modules)
    /\ ~check_org_exists(a.org_name, DOMAIN tree.deployment)

prepare_parameters(a, tree) ==
    LET existing_bpns == get_existing_bpns(tree.deployment)
    IN [org_name |-> a.org_name,
        bpn |-> IF Truthy(a.bpn) THEN a.bpn ELSE generate_next_bpn(existing_bpns),
        domain |-> a.domain,
        file_number |-> find_next_file_number(DOMAIN tree.deployment)]

RECURSIVE IntToDigits(_)
\* str() of a natural number
IntToDigits(n) ==
    IF n < 10 THEN <<DigitChar(n)>>
    ELSE IntToDigits(n \div 10) \o <<DigitChar(n % 10)>>

\* f"{params['file_number']}-{params['org_name']}.tf"
OrgTfName(p) == IntToDigits(p.file_number) \o <<"-">> \o p.org_name \o DotTf

\* organization.tf.j2 rendered with the four parameters
RenderOrgTf(p) == [template |-> OrgTemplate, params |-> p]

\* variables.tf.patch.j2 rendered with the four parameters: the declaration
\* block of the organization, its partner identifier among the defaults
RenderVarsPatch(p) == [org_name |-> p.org_name, bpn |-> p.bpn]

\* f"{params['org_name']}.postman_collection.json"
CollectionName(org_name) == org_name \o <<".postman_collection.json">>

\* Lines 189-203: the template document rewritten for the organization, or
\* the KeyError of a template without "info"
CloneCollection(template, p) ==
    IF ~template.has_info THEN Raised
    ELSE Returned(
      [has_info |-> TRUE,
       info |-> [name |-> Title(p.org_name) \o <<" Connector Management API">>,
                 description |-> <<"API collection for ">> \o p.org_name
                                    \o <<" connector operations">>],
       variable |->
          [i \in DOMAIN template.variable |->
             LET v == template.variable[i]
             IN IF v.key = <<"COMPANY_X_CONNECTOR_URL">>
                THEN [key |-> Upper(p.org_name) \o <<"_CONNECTOR_URL">>,
                      value |-> <<"https://">> \o p.org_name \o <<".">> \o p.domain]
                ELSE IF v.key = <<"COMPANY_X_BPN">>
                THEN [key |-> Upper(p.org_name) \o <<"_BPN">>, value |-> p.bpn]
                ELSE v]])

(***************************************************************************)
(* Bounded inputs                                                          *)
(***************************************************************************)
MaxRuns == 2

Acme == <<"a","c","m","e">>

Pacme == <<"p","a","c","m","e">>

BadName == <<"A","c","m","e">>

OrgNameInputs == {Acme, Pacme, Companyy, BadName}

Zeros11 == <<"0","0","0","0","0","0","0","0","0","0","0">>

Bpn1 == BpnPrefix \o Zeros11 \o <<"1">>

Bpn2 == BpnPrefix \o Zeros11 \o <<"2">>

Bpn7 == BpnPrefix \o Zeros11 \o <<"7">>

BpnMax == BpnPrefix \o <<"9","9","9","9","9","9","9","9","9","9","9","9">>

BadBpn == BpnPrefix \o Zeros11

NoBpn == <<>>

BpnInputs == {NoBpn, Bpn1, Bpn7, BadBpn}

GoodDomain == <<"a","-","b",".","i","o">>

BadDomain == <<"-","a",".","i","o">>

DomainInputs == {GoodDomain, BadDomain}

AuthorityTf == <<"1","-","a","u","t","h","o","r","i","t","y",".","t","f">>

CompanyxTf == <<"2","-">> \o Companyx \o DotTf

CompanyyTf == <<"3","-">> \o Companyy \o DotTf

\* The content of a file the run does not look into
Static == "static"

\* A collection document that is not the template's clone
ForeignCollection ==
    [has_info |-> TRUE,
     info |-> [name |-> <<"Acme (edited by hand)">>, description |-> <<"kept">>],
     variable |-> <<>>]

\* 4-seed_data.tf in the layout the patterns were written for
StandardSeedTf ==
    [seed_collections |->
        <<[indent |-> TRUE, entries |-> <<Companyx, Companyy>>, locals_before |-> <<>>]>>,
     companies |-> << <<Companyx, Companyy>> >>,
     participant_did |-> << <<Companyx, Companyy>> >>,
     env_vars |-> << <<Companyx, Companyy>> >>,
     depends_on |->
        << <<BdrsServer>>,
           <<BdrsServer, IdentityHub(Companyx), ConnectorIngress(Companyx),
             IdentityHub(Companyy), ConnectorIngress(Companyy)>> >>]

\* Layouts in which one of the seven patterns finds nothing
OffLayoutSeedTfs ==
    { [StandardSeedTf EXCEPT !.seed_collections[1].entries = <<Companyy, Companyx>>],
      [StandardSeedTf EXCEPT !.companies = <<>>],
      [StandardSeedTf EXCEPT !.participant_did = <<>>],
      [StandardSeedTf EXCEPT !.seed_collections[1].indent = FALSE],
      [StandardSeedTf EXCEPT !.env_vars = <<>>],
      [StandardSeedTf EXCEPT !.depends_on[1] = <<IdentityHub(Companyx), BdrsServer>>],
      [StandardSeedTf EXCEPT !.depends_on[2] = <<BdrsServer, ConnectorIngress(Companyx)>>] }

StandardVariables ==
    <<[org_name |-> Companyx, bpn |-> Bpn1], [org_name |-> Companyy, bpn |-> Bpn2]>>

StandardDeployment ==
    (VariablesTf :> StandardVariables) @@ (TerraformTf :> Static)
    @@ (SeedDataTf :> StandardSeedTf) @@ (AuthorityTf :> Static)
    @@ (CompanyxTf :> Static) @@ (CompanyyTf :> Static)

Without(dir, name) == [f \in (DOMAIN dir) \ {name} |-> dir[f]]

\* A request already in the seed document
OldRequest(n) == [name |-> <<n>>, bpn_var |-> <<>>, did_var |-> <<>>]

StandardSeedDoc ==
    [has_item |-> TRUE,
     item |-> <<[name |-> "SeedIssuer", has_item |-> TRUE, item |-> <<OldRequest("issuer")>>],
                [name |-> SeedBDRS, has_item |-> TRUE,
                 item |-> <<OldRequest("companyx"), OldRequest("companyy")>>],
                [name |-> "SeedCatalog", has_item |-> TRUE,
                 item |-> <<OldRequest("asset"), OldRequest("policy")>>]>>]

OtherSeedDocs ==
    { [has_item |-> TRUE, item |-> <<StandardSeedDoc.item[1], StandardSeedDoc.item[3]>>],
      [has_item |-> FALSE, item |-> <<>>],
      [StandardSeedDoc EXCEPT !.item[2].item = <<>>, !.item[2].has_item = FALSE],
      [has_item |-> TRUE,
       item |-> <<StandardSeedDoc.item[1], StandardSeedDoc.item[2],
                  [name |-> SeedBDRS, has_item |-> TRUE, item |-> <<OldRequest("late")>>]>>] }

StandardJwtGen ==
    [companies |-> << <<[org |-> Companyx, holder_identifier |-> Bpn1],
                        [org |-> Companyy, holder_identifier |-> Bpn2]>> >>]

StandardCollection ==
    [has_info |-> TRUE,
     info |-> [name |-> <<"Company X Connector Management API">>,
               description |-> <<"API collection for companyx">>],
     variable |-> <<[key |-> <<"COMPANY_X_CONNECTOR_URL">>, value |-> <<"https://companyx">>],
                    [key |-> <<"COMPANY_X_BPN">>, value |-> Bpn1],
                    [key |-> <<"API_KEY">>, value |-> <<"password">>]>>]

StandardTree ==
    [deployment |-> StandardDeployment,
     modules |-> TRUE,
     templates |-> {OrgTemplate, VarsTemplate},
     seed_dir |-> (MvdsSeedJson :> StandardSeedDoc),
     did_dir |-> (JwtGenPy :> StandardJwtGen),
     collections |-> (CollectionName(Companyx) :> StandardCollection)]

\* The standard tree and the trees that differ from it in one place
InitialTrees ==
    {StandardTree}
    \cup {[StandardTree EXCEPT !.deployment = Without(@, f)] :
              f \in {VariablesTf, SeedDataTf, TerraformTf}}
    \cup {[StandardTree EXCEPT !.modules = FALSE]}
    \cup {[StandardTree EXCEPT !.deployment[SeedDataTf] = layout] :
              layout \in OffLayoutSeedTfs}
    \cup {[StandardTree EXCEPT !.deployment[VariablesTf] = v] :
              v \in {<<>>, <<[org_name |-> Companyx, bpn |-> BpnMax]>>}}
    \cup {[StandardTree EXCEPT !.seed_dir[MvdsSeedJson] = doc] : doc \in OtherSeedDocs}
    \cup {[StandardTree EXCEPT !.seed_dir = <<>>]}
    \cup {[StandardTree EXCEPT !.did_dir[JwtGenPy] = [companies |-> <<>>]]}
    \cup {[StandardTree EXCEPT !.did_dir = <<>>]}
    \cup {[StandardTree EXCEPT !.collections = <<>>]}
    \cup {[StandardTree EXCEPT !.collections[CollectionName(Companyx)].has_info = FALSE]}
    \cup {[StandardTree EXCEPT !.collections = @ @@ (CollectionName(Acme) :> ForeignCollection)]}
    \cup {[StandardTree EXCEPT !.templates = {t}] : t \in {OrgTemplate, VarsTemplate}}

NoProbe == [op |-> None, files |-> {}, blocks |-> <<>>, number |-> 0, bpn |-> <<>>]

NoArgs == [org_name |-> <<>>, bpn |-> <<>>, domain |-> <<>>, dry_run |-> FALSE]

NoParams == [org_name |-> <<>>, bpn |-> <<>>, domain |-> <<>>, file_number |-> 0]

Init ==
    /\ fs \in InitialTrees
    /\ fs0 = fs
    /\ pc = "idle"
    /\ args = NoArgs
    /\ params = NoParams
    /\ result = None
    /\ steps = <<>>
    /\ runs = 0
    /\ probe = NoProbe

(***************************************************************************)
(* OrganizationAutomator.run, one action per step.  A step that raises is  *)
(* caught by its method, which returns False, and run returns False.       *)
(***************************************************************************)
\* The step has run: it leaves the tree as `tree` and either goes on to
\* `next` or makes run() return False.
Proceed(step, ok, tree, next) ==
    /\ steps' = Append(steps, step)
    /\ fs' = tree
    /\ pc' = IF ok THEN next ELSE "done"
    /\ result' = IF ~ok THEN "failure" ELSE IF next = "done" THEN "success" ELSE None
    /\ UNCHANGED <<args, fs0, runs, probe>>

\* main(): a new invocation of the script on the tree as it is
StartRun ==
    /\ pc \in {"idle", "done"}
    /\ runs < MaxRuns
    /\ \E org_name \in OrgNameInputs, bpn \in BpnInputs,
          domain \in DomainInputs, dry_run \in BOOLEAN :
          args' = [org_name |-> org_name, bpn |-> bpn,
                   domain |-> domain, dry_run |-> dry_run]
    /\ pc' = "validate"
    /\ runs' = runs + 1
    /\ fs0' = fs
    /\ params' = NoParams
    /\ result' = None
    /\ steps' = <<>>
    /\ UNCHANGED <<fs, probe>>

\* run, lines 246-248
Validate ==
    /\ pc = "validate"
    /\ Proceed("validate", validate_inputs(args, fs), fs, "prepare")
    /\ UNCHANGED params

\* run, line 251
Prepare ==
    /\ pc = "prepare"
    /\ params' = prepare_parameters(args, fs)
    /\ pc' = "org_tf"
    /\ steps' = Append(steps, "prepare")
    /\ UNCHANGED <<fs, args, result, fs0, runs, probe>>

\* create_terraform_files, lines 110-121
CreateOrgTf ==
    /\ pc = "org_tf"
    /\ IF OrgTemplate \notin fs.templates
       THEN Proceed("org_tf", FALSE, fs, "vars")
       ELSE IF args.dry_run
       THEN Proceed("org_tf", TRUE, fs, "vars")
       ELSE Proceed("org_tf", TRUE,
                    [fs EXCEPT !.deployment =
                        create_organization_tf(@, OrgTfName(params), RenderOrgTf(params))],
                    "vars")
    /\ UNCHANGED params

\* create_terraform_files, lines 123-135
UpdateVariables ==
    /\ pc = "vars"
    /\ IF VarsTemplate \notin fs.templates
       THEN Proceed("vars", FALSE, fs, "seed_tf")
       ELSE IF args.dry_run
       THEN Proceed("vars", TRUE, fs, "seed_tf")
       ELSE LET saved == backup_file(fs.deployment, VariablesTf)
            IN IF ~saved.ok
               THEN Proceed("vars", FALSE, fs, "seed_tf")
               ELSE Proceed("vars", TRUE,
                            [fs EXCEPT !.deployment =
                                append_to_variables_tf(saved.val, RenderVarsPatch(params))],
                            "seed_tf")
    /\ UNCHANGED params

\* create_terraform_files, lines 137-144
UpdateSeedData ==
    /\ pc = "seed_tf"
    /\ IF args.dry_run
       THEN Proceed("seed_tf", TRUE, fs, "seed_json")
       ELSE LET saved == backup_file(fs.deployment, SeedDataTf)
            IN IF ~saved.ok
               THEN Proceed("seed_tf", FALSE, fs, "seed_json")
               ELSE LET patched == update_seed_data_tf(saved.val, params.org_name, params.bpn)
                    IN Proceed("seed_tf", patched.ok,
                               [fs EXCEPT !.deployment =
                                   IF patched.ok THEN patched.val ELSE saved.val],
                               "seed_json")
    /\ UNCHANGED params

\* create_terraform_files, lines 146-157
UpdateSeedJson ==
    /\ pc = "seed_json"
    /\ IF args.dry_run
       THEN Proceed("seed_json", TRUE, fs, "did")
       ELSE LET saved == backup_file(fs.seed_dir, MvdsSeedJson)
            IN IF ~saved.ok
               THEN Proceed("seed_json", FALSE, fs, "did")
               ELSE LET edited == update_mvds_seed_json(saved.val, params.org_name, params.bpn)
                    IN Proceed("seed_json", edited.ok,
                               [fs EXCEPT !.seed_dir =
                                   IF edited.ok THEN edited.val ELSE saved.val],
                               "did")
    /\ UNCHANGED params

\* update_did_generation
UpdateDid ==
    /\ pc = "did"
    /\ IF args.dry_run
       THEN Proceed("did", TRUE, fs, "postman")
       ELSE LET saved == backup_file(fs.did_dir, JwtGenPy)
            IN IF ~saved.ok
               THEN Proceed("did", FALSE, fs, "postman")
               ELSE LET patched == update_jwt_gen_script(saved.val, params.org_name, params.bpn)
                    IN Proceed("did", patched.ok,
                               [fs EXCEPT !.did_dir =
                                   IF patched.ok THEN patched.val ELSE saved.val],
                               "postman")
    /\ UNCHANGED params

\* CreatePostman without the dry-run test of line 208
CreatePostman_always_writes ==
    /\ pc = "postman"
    /\ IF CollectionName(Companyx) \notin DOMAIN fs.collections
       THEN Proceed("postman", TRUE, fs, "done")
       ELSE LET collection_data ==
                    CloneCollection(fs.collections[CollectionName(Companyx)], params)
            IN IF ~collection_data.ok
               THEN Proceed("postman", FALSE, fs, "done")
               ELSE Proceed("postman", TRUE,
                            [fs EXCEPT !.collections =
                                WriteFile(@, CollectionName(params.org_name),
                                          collection_data.val)],
                            "done")
    /\ UNCHANGED params

\* create_postman_collection, followed by the end of run
CreatePostman ==
    /\ pc = "postman"
    /\ IF CollectionName(Companyx) \notin DOMAIN fs.collections
       THEN Proceed("postman", TRUE, fs, "done")
       ELSE LET collection_data ==
                    CloneCollection(fs.collections[CollectionName(Companyx)], params)
            IN IF ~collection_data.ok
               THEN Proceed("postman", FALSE, fs, "done")
               ELSE IF args.dry_run
               THEN Proceed("postman", TRUE, fs, "done")
               ELSE Proceed("postman", TRUE,
                            [fs EXCEPT !.collections =
                                WriteFile(@, CollectionName(params.org_name),
                                          collection_data.val)],
                            "done")
    /\ UNCHANGED params

Next ==
    \/ StartRun
    \/ Validate
    \/ Prepare
    \/ CreateOrgTf
    \/ UpdateVariables
    \/ UpdateSeedData
    \/ UpdateSeedJson
    \/ UpdateDid
    \/ CreatePostman

Spec == Init /\ [][Next]_vars

(***************************************************************************)
(* The allocators on their own: one call of find_next_file_number or of    *)
(* get_existing_bpns and generate_next_bpn on a directory drawn from the   *)
(* candidates below.                                                       *)
(***************************************************************************)
MaxProbeBlocks == 3

AcmeTf == <<"6","-">> \o Acme \o DotTf

PacmeTf == <<"1","2","-">> \o Pacme \o DotTf

NotesMd == <<"9","-","n","o","t","e","s",".","m","d">>

\* Candidate file names, each with the number the file carries (0: none)
ProbeFileTable ==
    { <<SeedDataTf, 4>>, <<CompanyxTf, 2>>, <<CompanyyTf, 3>>, <<AcmeTf, 6>>,
      <<PacmeTf, 12>>, <<VariablesTf, 0>>, <<NotesMd, 0>> }

ProbeFiles == {e[1] : e \in ProbeFileTable}

Bpn3 == BpnPrefix \o Zeros11 \o <<"3">>

Bpn9 == BpnPrefix \o Zeros11 \o <<"9">>

Bpn199 == BpnPrefix \o <<"0","0","0","0","0","0","0","0","0","1","9","9">>

ShortBpn == BpnPrefix \o <<"4","2">>

\* Candidate texts of a declaration block, each with the suffix of the
\* identifier it declares (0: it declares none)
ProbeBpnTable ==
    { <<Bpn1, 1>>, <<Bpn3, 3>>, <<Bpn9, 9>>, <<Bpn199, 199>>, <<ShortBpn, 0>> }

\* The candidates and the identifier with the largest suffix there is
ProbeBlocks ==
    {[org_name |-> Companyx, bpn |-> b] : b \in {e[1] : e \in ProbeBpnTable} \cup {BpnMax}}

RECURSIVE SeqsUpTo(_, _)
\* The sequences over S of length at most n
SeqsUpTo(S, n) ==
    IF n = 0 THEN {<<>>}
    ELSE LET shorter == SeqsUpTo(S, n - 1)
         IN shorter \cup {Append(q, x) : q \in shorter, x \in S}

InitPure ==
    /\ fs = StandardTree
    /\ fs0 = fs
    /\ pc = "idle"
    /\ args = NoArgs
    /\ params = NoParams
    /\ result = None
    /\ steps = <<>>
    /\ runs = 0
    /\ probe = NoProbe

ProbeFileNumber ==
    /\ probe = NoProbe
    /\ \E dir \in SUBSET ProbeFiles :
          probe' = [op |-> "find_next_file_number", files |-> dir, blocks |-> <<>>,
                    number |-> find_next_file_number(dir), bpn |-> <<>>]
    /\ UNCHANGED <<fs, pc, args, params, result, steps, fs0, runs>>

ProbeNextBpn ==
    /\ probe = NoProbe
    /\ \E blocks \in SeqsUpTo(ProbeBlocks, MaxProbeBlocks), present \in BOOLEAN :
          LET dir == IF present THEN (VariablesTf :> blocks) ELSE <<>>
          IN probe' = [op |-> "generate_next_bpn",
                       files |-> DOMAIN dir,
                       blocks |-> IF present THEN blocks ELSE <<>>,
                       number |-> 0,
                       bpn |-> generate_next_bpn(get_existing_bpns(dir))]
    /\ UNCHANGED <<fs, pc, args, params, result, steps, fs0, runs>>

NextPure == ProbeFileNumber \/ ProbeNextBpn

SpecPure == InitPure /\ [][NextPure]_vars

(***************************************************************************)
(* update_seed_data_tf patch by patch.  A text is a sequence of strings;   *)
(* the braces of a text stand alone in strings of their own, so that       *)
(* counting them is counting elements.  re.sub puts its replacement in at  *)
(* every occurrence of the pattern and keeps the groups it matched, so the *)
(* text a patch adds to the file is its replacement, without the groups,   *)
(* once per occurrence.                                                    *)
(***************************************************************************)
MaxOnboardings == 2

\* str.count
CountChar(c, text) == Cardinality({i \in 1..Len(text) : text[i] = c})

\* validate_terraform_syntax, on the text of the file
validate_terraform_syntax(text) == CountChar("{", text) = CountChar("}", text)

\* seed_collections_replacement between \1 and \2
SeedCollectionsEntry(org_name) ==
    <<"\n    ">> \o org_name \o <<" = kubernetes_namespace.">> \o org_name
        \o <<"_namespace.metadata[0].name">>

\* new_company_entry without the brace that closes the entry
NewCompanyEntry_unclosed(org_name) ==
    <<"\n    ">> \o org_name \o <<" = ", "{",
      "\n      namespace              = var.">> \o org_name \o <<"_namespace",
      "\n      participant_did        = \"did:web:">> \o org_name
        \o <<".$", "{", "local.domain_name", "}", "\"">>

\* new_company_entry, the f-string with its doubled braces resolved
NewCompanyEntry(org_name) ==
    <<"\n    ">> \o org_name \o <<" = ", "{",
      "\n      namespace              = var.">> \o org_name \o <<"_namespace",
      "\n      participant_did        = \"did:web:">> \o org_name
        \o <<".$", "{", "local.domain_name", "}", "\"",
      "\n      participant_did_base64 = base64encode(local.">> \o org_name
        \o <<"_participant_did)",
      "\n      vc_membership_path     = \"assets/did/">> \o org_name
        \o <<".membership.jwt\"",
      "\n      bpn                    = var.">> \o org_name \o <<"_bpn",
      "\n      ih_superuser_apikey    = var.">> \o org_name \o <<"_ih_superuser_apikey",
      "\n      module_dependency      = module.">> \o org_name \o <<"_tx-identity-hub",
      "\n      ih_internal_url        = \"http://$", "{", "local.">> \o org_name
        \o <<"_ih_internal_service", "}", ":$", "{", "local.">> \o org_name
        \o <<"_ih_internal_identity_port", "}", "\"",
      "\n    ", "}">>

\* participant_did_replacement before \1
ParticipantDidLine(org_name) ==
    <<"  ">> \o org_name \o <<"_participant_did = \"did:web:">> \o org_name
        \o <<".$", "{", "local.domain_name", "}", "\"\n">>

\* internal_service_replacement before \1
InternalServiceLocals(org_name) ==
    <<"  ">> \o org_name \o <<"_ih_internal_service       = \"$", "{", "lower(var.">>
        \o org_name \o <<"_humanReadableName)", "}", "-tractusx-identityhub\"\n  ">>
        \o org_name \o <<"_ih_internal_identity_port = 7081\n\n">>

\* bdrs_env_vars_replacement before \1
BdrsEnvVars(org_name) ==
    <<"            \"--env-var\", \"">> \o Upper(org_name)
        \o <<"_DID=$", "{", "local.companies.">> \o org_name
        \o <<".participant_did", "}", "\",\n            \"--env-var\", \"">>
        \o Upper(org_name) \o <<"_BPN=$", "{", "var.">> \o org_name
        \o <<"_bpn", "}", "\",\n">>

\* first_depends_on_replacement and second_depends_on_replacement between
\* \1 and \2
DependsOnEntries(org_name) ==
    <<",\n    module.">> \o org_name \o <<"_tx-identity-hub,\n    module.">>
        \o org_name \o <<"_connector_ingress">>

RECURSIVE Repeat(_, _)
\* The text n times over
Repeat(text, n) == IF n = 0 THEN <<>> ELSE text \o Repeat(text, n - 1)

\* The number of occurrences a patch has rewritten: every occurrence gets
\* something appended, so it differs from what it was
Occurrences(old, new) == Cardinality({i \in DOMAIN old : old[i] # new[i]})

\* A file in which every pattern occurs twice
RepeatedSeedTf ==
    [seed_collections |-> StandardSeedTf.seed_collections \o StandardSeedTf.seed_collections,
     companies |-> StandardSeedTf.companies \o StandardSeedTf.companies,
     participant_did |-> StandardSeedTf.participant_did \o StandardSeedTf.participant_did,
     env_vars |-> StandardSeedTf.env_vars \o StandardSeedTf.env_vars,
     depends_on |-> StandardSeedTf.depends_on \o StandardSeedTf.depends_on]

ProbeSeedTfs == {StandardSeedTf, RepeatedSeedTf} \cup OffLayoutSeedTfs

\* content: the file; patch: the next of the seven patches of the call under
\* way (0: no call under way); added: the text the patches have put into
\* the file so far; calls: the calls of update_seed_data_tf completed
InitPatch ==
    /\ fs = StandardTree
    /\ fs0 = fs
    /\ pc = "idle"
    /\ args = NoArgs
    /\ params = NoParams
    /\ result = None
    /\ steps = <<>>
    /\ runs = 0
    /\ \E c \in ProbeSeedTfs :
          probe = [op |-> "update_seed_data_tf", content |-> c, org_name |-> <<>>,
                   patch |-> 0, added |-> <<>>, calls |-> 0]

\* content = seed_data_file.read_text()
ReadSeedData ==
    /\ probe.patch = 0
    /\ probe.calls < MaxOnboardings
    /\ \E org_name \in {Acme, Pacme} :
          probe' = [probe EXCEPT !.org_name = org_name, !.patch = 1]
    /\ UNCHANGED <<fs, pc, args, params, result, steps, fs0, runs>>

\* One re.sub of the call: the k-th, giving the content new by putting the
\* text inserted in at each of the given occurrences
Substitute(k, new, inserted, occurrences) ==
    /\ probe.patch = k
    /\ probe' = [probe EXCEPT !.content = new,
                              !.added = @ \o Repeat(inserted, occurrences),
                              !.patch = k + 1]
    /\ UNCHANGED <<fs, pc, args, params, result, steps, fs0, runs>>

SubSeedCollections ==
    LET new == PatchSeedCollections(probe.content, probe.org_name)
    IN Substitute(1, new, SeedCollectionsEntry(probe.org_name),
                  Occurrences(probe.content.seed_collections, new.seed_collections))

SubCompanies ==
    LET new == PatchCompanies(probe.content, probe.org_name)
    IN Substitute(2, new, NewCompanyEntry(probe.org_name),
                  Occurrences(probe.content.companies, new.companies))

SubParticipantDid ==
    LET new == PatchParticipantDid(probe.content, probe.org_name)
    IN Substitute(3, new, ParticipantDidLine(probe.org_name),
                  Occurrences(probe.content.participant_did, new.participant_did))

SubInternalService ==
    LET new == PatchInternalService(probe.content, probe.org_name)
    IN Substitute(4, new, InternalServiceLocals(probe.org_name),
                  Occurrences(probe.content.seed_collections, new.seed_collections))

SubEnvVars ==
    LET new == PatchEnvVars(probe.content, probe.org_name)
    IN Substitute(5, new, BdrsEnvVars(probe.org_name),
                  Occurrences(probe.content.env_vars, new.env_vars))

SubFirstDependsOn ==
    LET new == PatchFirstDependsOn(probe.content, probe.org_name)
    IN Substitute(6, new, DependsOnEntries(probe.org_name),
                  Occurrences(probe.content.depends_on, new.depends_on))

SubSecondDependsOn ==
    LET new == PatchSecondDependsOn(probe.content, probe.org_name)
    IN Substitute(7, new, DependsOnEntries(probe.org_name),
                  Occurrences(probe.content.depends_on, new.depends_on))

\* seed_data_file.write_text(content)
WriteSeedData ==
    /\ probe.patch = 8
    /\ probe' = [probe EXCEPT !.patch = 0, !.calls = @ + 1]
    /\ UNCHANGED <<fs, pc, args, params, result, steps, fs0, runs>>

NextPatch ==
    \/ ReadSeedData
    \/ SubSeedCollections
    \/ SubCompanies
    \/ SubParticipantDid
    \/ SubInternalService
    \/ SubEnvVars
    \/ SubFirstDependsOn
    \/ SubSecondDependsOn
    \/ WriteSeedData

SpecPatch == InitPatch /\ [][NextPatch]_vars

(***************************************************************************)
(* Properties                                                              *)
(***************************************************************************)
\* The numbers of the probed directory's files named <number>-<name>.tf
ProbedNumbers == {e[2] : e \in {t \in ProbeFileTable : t[1] \in probe.files /\ t[2] > 0}}

\* C7: find_next_file_number returns 2 when no file of the directory is
\* named <number>-<name>.tf, otherwise the largest number plus one, except 5
\* when that is 4 and 4-seed_data.tf exists; {2,3} with the reserved file
\* gives 5 and {2,3,6} gives 7.
C7_NextFileNumber ==
    probe.op = "find_next_file_number" =>
        /\ probe.number =
              IF ProbedNumbers = {} THEN 2
              ELSE IF MaxOf(ProbedNumbers) + 1 = 4 /\ SeedDataTf \in probe.files THEN 5
              ELSE MaxOf(ProbedNumbers) + 1
        /\ probe.number \notin ProbedNumbers
        /\ ProbedNumbers = {2, 3, 4} => probe.number = 5
        /\ ProbedNumbers = {2, 3, 6} => probe.number = 7

C7_Witness ==
    /\ probe.op = "find_next_file_number"
    /\ probe.files = {CompanyxTf, CompanyyTf, SeedDataTf}
    /\ probe.number = 5

\* The suffixes of the identifiers the probed variables file declares
ProbedSuffixes ==
    {e[2] : e \in {t \in ProbeBpnTable :
                     /\ t[2] > 0
                     /\ \E i \in 1..Len(probe.blocks) : probe.blocks[i].bpn = t[1]}}

\* C8: without a supplied identifier the allocator returns the prefix
\* followed by the largest suffix found in the variables file plus one,
\* zero-padded to 12 digits, the prefix followed by 000000000001 when none is
\* found, and never an identifier of the file.
C8_NextBpn ==
    probe.op = "generate_next_bpn" =>
        /\ probe.bpn =
              IF \E i \in 1..Len(probe.blocks) : probe.blocks[i].bpn = BpnMax
              THEN BpnPrefix \o <<"1","0","0","0","0","0","0","0","0","0","0","0","0">>
              ELSE IF ProbedSuffixes = {} THEN Bpn1
              ELSE BpnPrefix \o ZeroPad(IntToDigits(MaxOf(ProbedSuffixes) + 1), 12)
        /\ \A i \in 1..Len(probe.blocks) : probe.blocks[i].bpn # probe.bpn
        /\ {probe.blocks[i].bpn : i \in 1..Len(probe.blocks)} = {Bpn3} =>
               probe.bpn = BpnPrefix \o Zeros11 \o <<"4">>

C8_Witness ==
    /\ probe.op = "generate_next_bpn"
    /\ {probe.blocks[i].bpn : i \in 1..Len(probe.blocks)} = {Bpn3, Bpn199}
    /\ probe.bpn = BpnPrefix \o <<"0","0","0","0","0","0","0","0","0","2","0","0">>

Ran(step) == \E i \in 1..Len(steps) : steps[i] = step

\* The step ran and did not make the run fail
Passed(step) == Ran(step) /\ ~(result = "failure" /\ steps[Len(steps)] = step)

\* Inputs that validate_inputs has to reject, for the tree they are given on
Rejectable(a, tree) ==
    \/ ~validate_org_name(a.org_name)
    \/ a.bpn # NoBpn /\ ~validate_bpn(a.bpn)
    \/ ~validate_domain(a.domain)
    \/ \E f \in {VariablesTf, SeedDataTf, TerraformTf} : f \notin DOMAIN tree.deployment
    \/ ~tree.modules
    \/ check_org_exists(a.org_name, DOMAIN tree.deployment)

\* C1: when validate_inputs fails (organization name, supplied identifier,
\* domain, a required file or the modules directory missing, organization
\* already there) the run returns failure having run no other step, and the
\* working tree is as it was before the run.
C1_RejectedRunTouchesNothing ==
    (Ran("validate") /\ Rejectable(args, fs0)) =>
        /\ pc = "done"
        /\ result = "failure"
        /\ steps = <<"validate">>
        /\ fs = fs0

C1_Witness ==
    /\ pc = "done"
    /\ result = "failure"
    /\ ~args.dry_run
    /\ args.org_name = Companyy
    /\ check_org_exists(args.org_name, DOMAIN fs0.deployment)
    /\ fs0.modules
    /\ ~(\E f \in {VariablesTf, SeedDataTf, TerraformTf} : f \notin DOMAIN fs0.deployment)

\* C2: in a run with the dry-run flag no file is created, changed or backed
\* up, at any point of the run and however it ends.
C2_DryRunWritesNothing == args.dry_run => fs = fs0

C2_Witness ==
    /\ pc = "done"
    /\ args.dry_run
    /\ result = "success"
    /\ Ran("postman")
    /\ CollectionName(Companyx) \in DOMAIN fs.collections

\* The organizations the numbered files of the directory declare
DeclaredOrgs(dir) ==
    {SubSeq(f, LeadingDigits(f) + 2, Len(f) - Len(DotTf)) :
        f \in {g \in GlobTf(dir) : NumberedTf(g)}}

\* C3: a run that reaches its first file write uses an organization name, a
\* partner identifier and a file number that differ from all those already
\* declared in the deployment directory.
C3_RunUsesFreshIdentity ==
    (Passed("org_tf") /\ ~args.dry_run) =>
        /\ params.org_name \notin DeclaredOrgs(DOMAIN fs0.deployment)
        /\ params.bpn \notin get_existing_bpns(fs0.deployment)
        /\ params.file_number \notin FileNumbers(DOMAIN fs0.deployment)

IsPrefix(p, q) == Len(p) <= Len(q) /\ SubSeq(q, 1, Len(p)) = p

\* The fixed layout with entries added behind the original ones of its blocks
GrownFromStandard(c) ==
    /\ Len(c.seed_collections) = 1
    /\ c.seed_collections[1].indent
    /\ IsPrefix(StandardSeedTf.seed_collections[1].entries, c.seed_collections[1].entries)
    /\ Len(c.companies) = 1 /\ IsPrefix(StandardSeedTf.companies[1], c.companies[1])
    /\ Len(c.participant_did) = 1
    /\ IsPrefix(StandardSeedTf.participant_did[1], c.participant_did[1])
    /\ Len(c.env_vars) = 1 /\ IsPrefix(StandardSeedTf.env_vars[1], c.env_vars[1])
    /\ Len(c.depends_on) = 2
    /\ \A i \in 1..2 : IsPrefix(StandardSeedTf.depends_on[i], c.depends_on[i])

Count(x, q) == Cardinality({i \in 1..Len(q) : q[i] = x})

\* C4: from the fixed layout, every successful real run for an organization
\* leaves exactly one entry for it in each patched block of 4-seed_data.tf,
\* however many organizations were onboarded before.
C4_EveryBlockGainsOneEntry ==
    (/\ pc = "done" /\ result = "success" /\ ~args.dry_run
     /\ GrownFromStandard(fs0.deployment[SeedDataTf])) =>
        LET new == fs.deployment[SeedDataTf]
            X == params.org_name
        IN /\ Count(X, new.seed_collections[1].entries) = 1
           /\ Count(X, new.companies[1]) = 1
           /\ Count(X, new.participant_did[1]) = 1
           /\ Count(X, new.seed_collections[1].locals_before) = 1
           /\ Count(X, new.env_vars[1]) = 1
           /\ \A i \in 1..2 :
                 /\ Count(IdentityHub(X), new.depends_on[i]) = 1
                 /\ Count(ConnectorIngress(X), new.depends_on[i]) = 1

Directories == {"deployment", "seed_dir", "did_dir", "collections"}

\* C5: at the end of a real run every file that was there before the run and
\* whose content changed has a backup sibling holding its content as of the
\* start of the run.
C5_ChangedFilesAreBackedUp ==
    (pc = "done" /\ ~args.dry_run) =>
        \A d \in Directories :
            \A name \in DOMAIN fs0[d] :
                (~EndsWith(name, DotBackup) /\ fs[d][name] # fs0[d][name]) =>
                    /\ (name \o DotBackup) \in DOMAIN fs[d]
                    /\ fs[d][name \o DotBackup] = fs0[d][name]

\* The seed document is there and has no top-level item named SeedBDRS
NoSeedBdrsSection(tree) ==
    /\ MvdsSeedJson \in DOMAIN tree.seed_dir
    /\ LET doc == tree.seed_dir[MvdsSeedJson]
       IN doc.has_item => \A i \in 1..Len(doc.item) : doc.item[i].name # SeedBDRS

\* C6: a real run that gets to the seed document and finds no top-level
\* item named SeedBDRS in it fails there: the document is unchanged, the run
\* returns failure, and the DID script and the collections are untouched.
C6_MissingSectionStopsRun ==
    (Ran("seed_json") /\ ~args.dry_run /\ NoSeedBdrsSection(fs0)) =>
        /\ pc = "done"
        /\ result = "failure"
        /\ steps[Len(steps)] = "seed_json"
        /\ fs.seed_dir[MvdsSeedJson] = fs0.seed_dir[MvdsSeedJson]
        /\ fs.did_dir = fs0.did_dir
        /\ fs.collections = fs0.collections

C6_Witness ==
    /\ Ran("seed_json") /\ ~args.dry_run /\ NoSeedBdrsSection(fs0)
    /\ fs0.seed_dir[MvdsSeedJson].has_item
    /\ pc = "done"
    /\ (MvdsSeedJson \o DotBackup) \in DOMAIN fs.seed_dir

\* C9: after a successful update_mvds_seed_json every section and every item
\* of the document is where it was and as it was, and the first section named
\* SeedBDRS has one more item, the organization's, at the end of its list.
C9_SeedItemsPreserved ==
    (Passed("seed_json") /\ ~args.dry_run) =>
        LET old == fs0.seed_dir[MvdsSeedJson]
            new == fs.seed_dir[MvdsSeedJson]
        IN /\ new.has_item
           /\ Len(new.item) = Len(old.item)
           /\ \E k \in 1..Len(old.item) :
                 LET before == IF old.item[k].has_item THEN old.item[k].item ELSE <<>>
                     after == new.item[k].item
                 IN /\ old.item[k].name = SeedBDRS
                    /\ \A j \in 1..(k-1) : old.item[j].name # SeedBDRS
                    /\ \A j \in (1..Len(old.item)) \ {k} : new.item[j] = old.item[j]
                    /\ new.item[k].name = SeedBDRS
                    /\ Len(after) = Len(before) + 1
                    /\ SubSeq(after, 1, Len(before)) = before
                    /\ after[Len(after)].bpn_var = Upper(params.org_name) \o <<"_BPN">>
                    /\ after[Len(after)].did_var = Upper(params.org_name) \o <<"_DID">>

C9_Witness ==
    /\ Passed("seed_json") /\ ~args.dry_run
    /\ LET old == fs0.seed_dir[MvdsSeedJson]
       IN Cardinality({i \in 1..Len(old.item) : old.item[i].name = SeedBDRS}) = 2

\* Nothing but a pattern that finds nothing stands in the way of the run
NoOtherFailure(tree) ==
    /\ {OrgTemplate, VarsTemplate} \subseteq tree.templates
    /\ MvdsSeedJson \in DOMAIN tree.seed_dir
    /\ ~NoSeedBdrsSection(tree)
    /\ JwtGenPy \in DOMAIN tree.did_dir
    /\ CollectionName(Companyx) \in DOMAIN tree.collections =>
          tree.collections[CollectionName(Companyx)].has_info

\* A pattern of update_seed_data_tf, or the one of update_jwt_gen_script,
\* finds nothing in the tree
SomeAnchorMissing(tree) ==
    LET c == tree.deployment[SeedDataTf]
    IN \/ c.companies = <<>>
       \/ c.participant_did = <<>>
       \/ c.env_vars = <<>>
       \/ \A i \in 1..Len(c.seed_collections) :
             \/ ~c.seed_collections[i].indent
             \/ c.seed_collections[i].entries = <<>>
             \/ c.seed_collections[i].entries[Len(c.seed_collections[i].entries)] # Companyy
       \/ \A i \in 1..Len(c.depends_on) : c.depends_on[i] # <<BdrsServer>>
       \/ \A i \in 1..Len(c.depends_on) :
             c.depends_on[i] = <<>>
             \/ c.depends_on[i][Len(c.depends_on[i])] # ConnectorIngress(Companyy)
       \/ tree.did_dir[JwtGenPy].companies = <<>>

\* C10: a pattern that finds nothing raises no error and changes nothing
\* where it was to insert: the run goes on to its end and returns success.
C10_MissingAnchorIsSilent ==
    (pc = "done" /\ ~args.dry_run /\ Passed("validate") /\ NoOtherFailure(fs0)) =>
        LET old == fs0.deployment[SeedDataTf]
            new == fs.deployment[SeedDataTf]
        IN /\ result = "success"
           /\ Ran("seed_tf") /\ Ran("did") /\ Ran("postman")
           /\ old.companies = <<>> => new.companies = <<>>
           /\ old.participant_did = <<>> => new.participant_did = <<>>
           /\ old.env_vars = <<>> => new.env_vars = <<>>
           /\ Len(new.seed_collections) = Len(old.seed_collections)
           /\ \A i \in 1..Len(old.seed_collections) :
                 LET b == old.seed_collections[i]
                 IN /\ (b.entries = <<>> \/ b.entries[Len(b.entries)] # Companyy) =>
                          new.seed_collections[i].entries = b.entries
                    /\ ~b.indent => new.seed_collections[i].locals_before = b.locals_before
           /\ Len(new.depends_on) = Len(old.depends_on)
           /\ \A i \in 1..Len(old.depends_on) :
                 LET l == old.depends_on[i]
                 IN (l # <<BdrsServer>> /\ (l = <<>> \/ l[Len(l)] # ConnectorIngress(Companyy)))
                       => new.depends_on[i] = l
           /\ fs0.did_dir[JwtGenPy].companies = <<>> => fs.did_dir[JwtGenPy].companies = <<>>

C10_Witness ==
    /\ pc = "done" /\ ~args.dry_run /\ result = "success"
    /\ SomeAnchorMissing(fs0)
    /\ fs0.deployment[SeedDataTf].env_vars = <<>>

\* C11: each of the seven patches of update_seed_data_tf keeps the braces of
\* the file balanced: the text the patches have added so far, whether their
\* patterns were found not at all, once or several times and however many
\* organizations were added before, has as many open as close braces.
C11_PatchesKeepBraceBalance ==
    probe.op = "update_seed_data_tf" => validate_terraform_syntax(probe.added)

C11_Witness ==
    /\ probe.op = "update_seed_data_tf"
    /\ probe.calls = 2
    /\ Len(probe.content.companies) = 2
    /\ CountChar("{", probe.added) > 0
    /\ Occurrences(probe.content.depends_on,
                   PatchFirstDependsOn(probe.content, Acme).depends_on) = 0

\* C12: the identifier generate_next_bpn returns for the identifiers found
\* in the variables file is accepted by validate_bpn, also when the largest
\* suffix found is 999999999999.
C12_NextBpnIsWellFormed ==
    probe.op = "generate_next_bpn" => validate_bpn(probe.bpn)

\* The run under way was a real run for X that failed after it had written
\* the organization file, and is over
FailedHalfWay(X) ==
    /\ pc = "done"
    /\ result = "failure"
    /\ ~args.dry_run
    /\ args.org_name = X
    /\ Passed("org_tf")

\* What the steps that completed have written is still there
NothingRolledBack ==
    /\ OrgTfName(params) \in DOMAIN fs.deployment
    /\ fs.deployment[OrgTfName(params)] = RenderOrgTf(params)
    /\ Passed("vars") =>
          /\ Len(fs.deployment[VariablesTf]) = Len(fs0.deployment[VariablesTf]) + 1
          /\ fs.deployment[VariablesTf][Len(fs.deployment[VariablesTf])] = RenderVarsPatch(params)
    /\ Passed("seed_tf") =>
          fs.deployment[SeedDataTf] = PatchSeedData(fs0.deployment[SeedDataTf], params.org_name)
    /\ Passed("seed_json") =>
          fs.seed_dir[MvdsSeedJson] # fs0.seed_dir[MvdsSeedJson]

\* A run for X that finds a file of X in the deployment directory stops at
\* validation
RejectedWhilePresent(X) ==
    (args.org_name = X /\ Ran("validate")
         /\ \E f \in DOMAIN fs0.deployment : EndsWith(f, X \o DotTf)) =>
        /\ pc = "done"
        /\ result = "failure"
        /\ steps = <<"validate">>

\* C13: when a real run for an organization fails after having written the
\* organization file, what it has written stays; no step of a run ever
\* removes a file of the deployment directory; and every run for an
\* organization started while a file of it is there is rejected by
\* validate_inputs.  So a failed onboarding cannot be completed by a re-run.
C13_FailedOnboardingBlocksRerun ==
    /\ [](\A X \in OrgNameInputs :
            FailedHalfWay(X) =>
                /\ NothingRolledBack
                /\ \E f \in DOMAIN fs.deployment : EndsWith(f, X \o DotTf))
    /\ [][\A f \in DOMAIN fs.deployment : f \in DOMAIN fs'.deployment]_vars
    /\ [](\A X \in OrgNameInputs : RejectedWhilePresent(X))

C13_Witness ==
    /\ runs = 2
    /\ args.org_name = Acme
    /\ ~args.dry_run
    /\ steps = <<"validate">>
    /\ result = "failure"
    /\ JwtGenPy \notin DOMAIN fs0.did_dir
    /\ fs0.modules
    /\ (<<"5","-">> \o Acme \o DotTf) \in DOMAIN fs0.deployment
    /\ fs0.deployment[VariablesTf][Len(fs0.deployment[VariablesTf])].org_name = Acme
    /\ (MvdsSeedJson \o DotBackup) \in DOMAIN fs0.seed_dir

\* run() with the dry-run flag: validate_inputs, the two templates opened by
\* create_terraform_files, and the template collection loaded and renamed by
\* create_postman_collection; every other read sits behind the flag
DryRunReportsSuccess(a, tree) ==
    /\ validate_inputs(a, tree)
    /\ {OrgTemplate, VarsTemplate} \subseteq tree.templates
    /\ CollectionName(Companyx) \in DOMAIN tree.collections =>
          CloneCollection(tree.collections[CollectionName(Companyx)],
                          prepare_parameters(a, tree)).ok

\* C14: a real run succeeds whenever a dry run with the same arguments from
\* the same tree reports success.
C14_DryRunPredictsRealRun ==
    (pc = "done" /\ ~args.dry_run
        /\ DryRunReportsSuccess([args EXCEPT !.dry_run = TRUE], fs0)) =>
        result = "success"
====
